---- MODULE Spec2Model ----
(***************************************************************************)
(* The 6th order IIR filter of src/src/iir6.rs: the coefficient record     *)
(* IIR6 { ba, y_offset, y_min, y_max }, the caller-owned history buffer    *)
(* Vec13 and the per-sample operation IIR6::update.                        *)
(*                                                                         *)
(* Samples and coefficients are exact integers: the arithmetic of the      *)
(* numeric type T (rounding, infinities, NaN) is not modelled.  Buffers    *)
(* and coefficient vectors are functions on 0..12, so that every index is  *)
(* the index the source uses.                                              *)
(***************************************************************************)
EXTENDS Integers, Sequences, FiniteSets

\* pub type Vec13<T> = [T; 13]
VecLen == 13

Idx == 0 .. (VecLen - 1)

\* [T::default(); 13]
Zero13 == [k \in Idx |-> 0]

\* self.ba.len()
len(v) == Cardinality(DOMAIN v)

\* IIR6::new(y_min, y_max)
new(y_min, y_max) ==
    [ba |-> Zero13, y_offset |-> 0, y_min |-> y_min, y_max |-> y_max]

\* mutant of copy_within: an element-by-element ascending copy, which reads
\* slots it has already overwritten when the ranges overlap
copy_within_forward(v, src_lo, src_hi, dest) ==
    [k \in DOMAIN v |->
        IF k >= dest /\ k < dest + (src_hi - src_lo)
        THEN IF dest > src_lo
             THEN v[src_lo + ((k - dest) % (dest - src_lo))]
             ELSE v[src_lo + (k - dest)]
        ELSE v[k]]

\* slice::copy_within(src_lo .. src_hi, dest): the source range is read
\* before any slot is written (memmove semantics).
copy_within(v, src_lo, src_hi, dest) ==
    [k \in DOMAIN v |->
        IF k >= dest /\ k < dest + (src_hi - src_lo)
        THEN v[src_lo + (k - dest)]
        ELSE v[k]]

\* x.iter().zip(a).map(|(x, a)| x * a) summed over the first m pairs
RECURSIVE dot(_, _, _)
dot(x, a, m) ==
    IF m = 0 THEN 0 ELSE dot(x, a, m - 1) + x[m - 1] * a[m - 1]

\* super::macc(y0, x, a) = y0 + sum_i x[i] * a[i]
macc(y0, x, a) == y0 + dot(x, a, len(x))

\* num_traits::clamp(input, min, max)
clamp(input, min, max) ==
    IF input < min THEN min
    ELSE IF input > max THEN max
    ELSE input

\* xy.copy_within(0..n - 1, 1); xy[0] = x0;
advance(xy, x0) ==
    LET n == len(xy)
        shifted == copy_within(xy, 0, n - 1, 1)
    IN  [shifted EXCEPT ![0] = x0]

\* mutant of raw: hold reads slot n / 2 instead of slot n / 2 + 1
raw_hold_slot(self, xy, hold) ==
    LET n == len(self.ba)
    IN  IF hold THEN xy[n \div 2]
        ELSE macc(self.y_offset, xy, self.ba)

\* mutant of raw: the offset is left out of the sum
raw_no_offset(self, xy, hold) ==
    LET n == len(self.ba)
    IN  IF hold THEN xy[(n \div 2) + 1]
        ELSE macc(0, xy, self.ba)

\* let y0 = if hold { xy[n / 2 + 1] } else { macc(self.y_offset, xy, &self.ba) };
raw(self, xy, hold) ==
    LET n == len(self.ba)
    IN  IF hold THEN xy[(n \div 2) + 1]
        ELSE macc(self.y_offset, xy, self.ba)

\* mutant of update: the limit step is left out
update_unclamped(self, xy, x0, hold) ==
    LET n  == len(self.ba)
        s  == advance(xy, x0)
        y0 == raw(self, s, hold)
    IN  [xy |-> [s EXCEPT ![n \div 2] = y0], y0 |-> y0]

\* mutant of update: the unclamped value is stored, the clamped one returned
update_store_raw(self, xy, x0, hold) ==
    LET n  == len(self.ba)
        s  == advance(xy, x0)
        v  == raw(self, s, hold)
        y0 == clamp(v, self.y_min, self.y_max)
    IN  [xy |-> [s EXCEPT ![n \div 2] = v], y0 |-> y0]

\* mutant of update: the result is stored one slot too far
update_store_high(self, xy, x0, hold) ==
    LET n  == len(self.ba)
        s  == advance(xy, x0)
        y0 == clamp(raw(self, s, hold), self.y_min, self.y_max)
    IN  [xy |-> [s EXCEPT ![(n \div 2) + 1] = y0], y0 |-> y0]

\* mutant of update: a held call does not advance the buffer
update_hold_frozen(self, xy, x0, hold) ==
    LET n  == len(self.ba)
        s  == IF hold THEN xy ELSE advance(xy, x0)
        v  == IF hold THEN xy[n \div 2] ELSE raw(self, s, hold)
        y0 == clamp(v, self.y_min, self.y_max)
    IN  [xy |-> [s EXCEPT ![n \div 2] = y0], y0 |-> y0]

\* mutant of update: a held value is not limited again
update_hold_unclamped(self, xy, x0, hold) ==
    LET n  == len(self.ba)
        s  == advance(xy, x0)
        v  == raw(self, s, hold)
        y0 == IF hold THEN v ELSE clamp(v, self.y_min, self.y_max)
    IN  [xy |-> [s EXCEPT ![n \div 2] = y0], y0 |-> y0]

\* IIR6::update: the buffer it leaves in xy and the value it returns
update(self, xy, x0, hold) ==
    LET n  == len(self.ba)
        s  == advance(xy, x0)
        y0 == clamp(raw(self, s, hold), self.y_min, self.y_max)
    IN  [xy |-> [s EXCEPT ![n \div 2] = y0], y0 |-> y0]

----------------------------------------------------------------------------
\* Coefficient records the configuration side supplies

taps(b0, b6, a1, a6) ==
    [k \in Idx |->
        IF k = 0 THEN b0
        ELSE IF k = 6 THEN b6
        ELSE IF k = 7 THEN a1
        ELSE IF k = 12 THEN a6
        ELSE 0]

with(r, ba, y_offset) == [r EXCEPT !.ba = ba, !.y_offset = y_offset]

Inert0    == new(-2, 2)
Inert1    == with(new(-2, 2), Zero13, 1)
InertHigh == with(new(1, 3), Zero13, 5)
Integ1    == with(new(-3, 3), taps(1, 0, 1, 0), 0)
Integ2    == with(new(-3, 3), taps(2, 0, 1, 0), 0)
General   == with(new(-4, 4), taps(1, 1, 1, -1), 1)
Wide      == with(new(-20, 20), taps(1, 1, 1, -1), 1)
Inverted  == with(new(2, -2), taps(1, 0, 0, 0), 0)

\* records of the short runs, the one with inverted bounds included
Records == {Inert0, Inert1, InertHigh, Integ2, General, Inverted}

\* records of the long runs, of the fixed-record runs, of the two-channel runs
LongRecords == {General, Integ2, InertHigh}
RunRecords  == {General, Wide, Integ1, Integ2}
ChanRecords == {General, Integ1, Inert1}

Inputs    == {-1, 2}
RunInputs == {-1, 0, 2}

\* the input of the n-th call of a long run: every call's input differs from
\* every other's, so that a sample in the wrong slot shows
Tagged(n) == IF n % 2 = 1 THEN -n ELSE n

Channels == {1, 2}

MaxCalls  == 4
MaxSwaps  == 1
LongCalls == 8
ChanCalls == 2

----------------------------------------------------------------------------
VARIABLES
    rec,    \* the coefficient record the caller passes to update
    xy,     \* the history buffer of every channel
    y0,     \* the value the last update call returned
    log,    \* per channel, the update calls made so far, oldest first
    swaps   \* the number of record replacements so far

vars == <<rec, xy, y0, log, swaps>>

\* the number of update calls made so far on all channels
total == Len(log[1]) + Len(log[2])

InitWith(R) ==
    /\ rec \in R
    /\ xy = [c \in Channels |-> Zero13]
    /\ y0 = 0
    /\ log = [c \in Channels |-> <<>>]
    /\ swaps = 0

\* mutant of write: the call writes the buffer of every channel
write_all(bufs, c, buf) == [d \in DOMAIN bufs |-> buf]

\* only the buffer passed as xy is written
write(bufs, c, buf) == [bufs EXCEPT ![c] = buf]

\* one call rec.update(&mut xy[c], x0, hold)
Update(c, x0, hold) ==
    LET r == update(rec, xy[c], x0, hold)
    IN  /\ xy' = write(xy, c, r.xy)
        /\ y0' = r.y0
        /\ log' = [log EXCEPT ![c] =
                      Append(@, [seq |-> total + 1, x0 |-> x0, hold |-> hold,
                                 rec |-> rec, pre |-> xy[c], post |-> r.xy,
                                 y0 |-> r.y0])]
        /\ UNCHANGED <<rec, swaps>>

\* mutant of SetRecord: the buffers are reinitialised with the new record
SetRecord_reset(r) ==
    /\ r # rec
    /\ rec' = r
    /\ swaps' = swaps + 1
    /\ xy' = [c \in Channels |-> Zero13]
    /\ UNCHANGED <<y0, log>>

\* the configuration side replaces the record as a whole between two calls
SetRecord(r) ==
    /\ r # rec
    /\ rec' = r
    /\ swaps' = swaps + 1
    /\ UNCHANGED <<xy, y0, log>>

\* Short runs on one channel: any record, any input, any hold flag, and
\* replacements of the record between calls.
Init == InitWith(Records)

Call ==
    \E x0 \in Inputs, hold \in BOOLEAN :
        Len(log[1]) < MaxCalls /\ Update(1, x0, hold)

Swap ==
    \E r \in Records : swaps < MaxSwaps /\ SetRecord(r)

Next == Call \/ Swap

Spec == Init /\ [][Next]_vars

\* Long runs on one channel: tagged inputs, any hold flag, replacements of
\* the record between calls.
LongInit == InitWith(LongRecords)

LongCall ==
    \E hold \in BOOLEAN :
        Len(log[1]) < LongCalls /\ Update(1, Tagged(Len(log[1]) + 1), hold)

LongSwap ==
    \E r \in LongRecords : swaps < MaxSwaps /\ SetRecord(r)

LongNext == LongCall \/ LongSwap

SpecLong == LongInit /\ [][LongNext]_vars

\* Long runs of hold = false calls with one fixed record.
RunInit == InitWith(RunRecords)

RunCall ==
    \E x0 \in RunInputs :
        Len(log[1]) < LongCalls /\ Update(1, x0, FALSE)

RunNext == RunCall

SpecRun == RunInit /\ [][RunNext]_vars

\* One fixed record driving the buffers of two channels, the calls on the
\* two channels interleaved in every order.
ChanInit == InitWith(ChanRecords)

ChanCall ==
    \E c \in Channels, x0 \in Inputs, hold \in BOOLEAN :
        Len(log[c]) < ChanCalls /\ Update(c, x0, hold)

ChanNext == ChanCall

SpecChan == ChanInit /\ [][ChanNext]_vars

----------------------------------------------------------------------------
\* Vocabulary of the properties

\* the calls made so far on channel c, their number, and the last of them
N(c) == Len(log[c])
call(c, m) == log[c][m]
final(c) == log[c][N(c)]

\* x[m], y[m]: the input and the returned value of call m, 0 before call 1
X(c, m) == IF m >= 1 THEN log[c][m].x0 ELSE 0
Y(c, m) == IF m >= 1 THEN log[c][m].y0 ELSE 0

Ordered(r) == r.y_min <= r.y_max

\* the mathematical clamp to [lo, hi], lo <= hi
Limit(v, lo, hi) == IF v > hi THEN hi ELSE IF v < lo THEN lo ELSE v

\* the buffer h after the shift and the insertion of x0 into buffer b
Inserted(b, x) == [k \in Idx |-> IF k = 0 THEN x ELSE b[k - 1]]

\* y_offset + sum_{k=0..12} ba[k] * h[k]
Weighted(r, h) ==
    r.y_offset
    + r.ba[0] * h[0] + r.ba[1] * h[1] + r.ba[2] * h[2] + r.ba[3] * h[3]
    + r.ba[4] * h[4] + r.ba[5] * h[5] + r.ba[6] * h[6] + r.ba[7] * h[7]
    + r.ba[8] * h[8] + r.ba[9] * h[9] + r.ba[10] * h[10] + r.ba[11] * h[11]
    + r.ba[12] * h[12]

\* the raw value of call e: the weighted sum over the buffer after shift and insert
RawOf(e) == Weighted(e.rec, Inserted(e.pre, e.x0))

\* y_offset + sum_{i=0..6} ba[i]*x[n-i] + sum_{j=1..6} ba[6+j]*y[n-j]
Difference(r, c, n) ==
    r.y_offset
    + r.ba[0] * X(c, n) + r.ba[1] * X(c, n - 1) + r.ba[2] * X(c, n - 2)
    + r.ba[3] * X(c, n - 3) + r.ba[4] * X(c, n - 4) + r.ba[5] * X(c, n - 5)
    + r.ba[6] * X(c, n - 6)
    + r.ba[7] * Y(c, n - 1) + r.ba[8] * Y(c, n - 2) + r.ba[9] * Y(c, n - 3)
    + r.ba[10] * Y(c, n - 4) + r.ba[11] * Y(c, n - 5) + r.ba[12] * Y(c, n - 6)

ZeroTaps(r) == \A k \in Idx : r.ba[k] = 0

\* ba[0] = k > 0, ba[7] = 1, every other tap 0, y_offset = 0
IntegratorLike(r) ==
    /\ r.ba[0] > 0
    /\ r.ba[7] = 1
    /\ \A k \in Idx \ {0, 7} : r.ba[k] = 0
    /\ r.y_offset = 0

\* the number of hold = true calls that end the calls made so far on channel c
RECURSIVE HoldRun(_, _)
HoldRun(c, n) ==
    IF n >= 1 /\ log[c][n].hold THEN 1 + HoldRun(c, n - 1) ELSE 0

----------------------------------------------------------------------------
\* C1 (Saturation): a hold = false call under a record with y_min <= y_max
\* returns y_max when its raw value y_offset + sum ba[k]*xy'[k] is above
\* y_max, y_min when it is below y_min, and the raw value itself when it lies
\* in [y_min, y_max]; so the returned value always lies in [y_min, y_max],
\* and it is the value stored in slot 6.
C1_Saturation ==
    \A c \in Channels :
        (N(c) >= 1 /\ ~final(c).hold /\ Ordered(final(c).rec)) =>
            LET e == final(c)
                v == RawOf(e)
            IN  /\ (v > e.rec.y_max) => (e.y0 = e.rec.y_max)
                /\ (v < e.rec.y_min) => (e.y0 = e.rec.y_min)
                /\ (e.rec.y_min <= v /\ v <= e.rec.y_max) => (e.y0 = v)
                /\ e.rec.y_min <= e.y0 /\ e.y0 <= e.rec.y_max
                /\ y0 = e.y0
                /\ xy[c][6] = e.y0

\* C1 witness: one run in which a call saturated high, a call saturated low
\* and a call returned its raw value, all under ordered bounds
C1_Witness ==
    /\ \E i \in 1 .. N(1) :
          /\ ~call(1, i).hold /\ Ordered(call(1, i).rec)
          /\ RawOf(call(1, i)) > call(1, i).rec.y_max
          /\ call(1, i).y0 = call(1, i).rec.y_max
    /\ \E i \in 1 .. N(1) :
          /\ ~call(1, i).hold /\ Ordered(call(1, i).rec)
          /\ RawOf(call(1, i)) < call(1, i).rec.y_min
          /\ call(1, i).y0 = call(1, i).rec.y_min
    /\ \E i \in 1 .. N(1) :
          /\ ~call(1, i).hold /\ Ordered(call(1, i).rec)
          /\ call(1, i).rec.y_min < RawOf(call(1, i))
          /\ RawOf(call(1, i)) < call(1, i).rec.y_max
          /\ call(1, i).y0 = RawOf(call(1, i))

\* C2 (Hold semantics): under an unchanged record with y_min <= y_max, a
\* hold = true call that follows an earlier call returns exactly the value
\* the immediately preceding call returned, whatever its input.
C2_HoldReturnsPrevious ==
    \A c \in Channels :
        (/\ N(c) >= 2
         /\ final(c).hold
         /\ final(c).rec = call(c, N(c) - 1).rec
         /\ Ordered(final(c).rec)) =>
            final(c).y0 = call(c, N(c) - 1).y0

\* C2 witness: three consecutive hold calls with differing inputs after a
\* call that returned a nonzero value, the record unchanged
C2_Witness ==
    /\ N(1) = 4
    /\ ~call(1, 1).hold /\ call(1, 1).y0 # 0
    /\ call(1, 2).hold /\ call(1, 3).hold /\ call(1, 4).hold
    /\ call(1, 2).x0 # call(1, 3).x0
    /\ call(1, 4).x0 # call(1, 1).x0
    /\ \A i \in 1 .. 4 : call(1, i).rec = rec /\ Ordered(rec)
    /\ call(1, 4).y0 = call(1, 1).y0

\* C3 (Difference equation): from an all-zero buffer, under a fixed record
\* with y_min <= y_max, the n-th value returned by a run of hold = false
\* calls is clamp(y_offset + sum_{i=0..6} ba[i]*x[n-i]
\*                         + sum_{j=1..6} ba[6+j]*y[n-j], y_min, y_max).
C3_DifferenceEquation ==
    \A c \in Channels :
        (/\ N(c) >= 1
         /\ \A i \in 1 .. N(c) : ~call(c, i).hold /\ call(c, i).rec = rec
         /\ Ordered(rec)) =>
            final(c).y0 =
                Limit(Difference(rec, c, N(c)), rec.y_min, rec.y_max)

\* C3 witness: a seventh or later call whose sum has a nonzero term in
\* x[n-6] and a nonzero term in y[n-6], and whose result is not saturated
C3_Witness ==
    /\ N(1) >= 7
    /\ \A i \in 1 .. N(1) : ~call(1, i).hold /\ call(1, i).rec = rec
    /\ Ordered(rec)
    /\ rec.ba[6] * X(1, N(1) - 6) # 0
    /\ rec.ba[12] * Y(1, N(1) - 6) # 0
    /\ rec.y_min < final(1).y0 /\ final(1).y0 < rec.y_max
    /\ final(1).y0 = Difference(rec, 1, N(1))

\* C4 (No windup after saturation): with ba[0] = k > 0, ba[7] = 1, every
\* other tap 0, y_offset = 0 and y_min <= y_max, a hold = false call with
\* input x < 0 that follows a hold = false call whose output was y_max
\* returns max(y_min, y_max + k*x), however many calls the output has been
\* at y_max.
C4_NoWindup ==
    \A c \in Channels :
        (/\ N(c) >= 2
         /\ ~final(c).hold /\ ~call(c, N(c) - 1).hold
         /\ final(c).x0 < 0
         /\ IntegratorLike(final(c).rec) /\ Ordered(final(c).rec)
         /\ call(c, N(c) - 1).rec = final(c).rec
         /\ call(c, N(c) - 1).y0 = final(c).rec.y_max) =>
            LET e == final(c)
                v == e.rec.y_max + e.rec.ba[0] * e.x0
            IN  e.y0 = IF v < e.rec.y_min THEN e.rec.y_min ELSE v

\* C4 witness: three consecutive calls driven above y_max, then a negative
\* input whose result is below y_max at once
C4_Witness ==
    /\ N(1) >= 4
    /\ IntegratorLike(rec) /\ Ordered(rec)
    /\ \A i \in 1 .. N(1) : ~call(1, i).hold /\ call(1, i).rec = rec
    /\ \A i \in (N(1) - 3) .. (N(1) - 1) :
          RawOf(call(1, i)) > rec.y_max /\ call(1, i).y0 = rec.y_max
    /\ final(1).x0 < 0
    /\ final(1).y0 = rec.y_max + rec.ba[0] * final(1).x0
    /\ final(1).y0 > rec.y_min

\* C5 (Bump-less transfer): replacing the record between two calls changes
\* no slot of the buffer, and the next hold = false call returns
\* clamp(B.y_offset + sum B.ba[k]*h[k], B.y_min, B.y_max) (bounds ordered),
\* h being the buffer the calls under A left, shifted, with the new input
\* inserted.
C5_BumplessTransfer ==
    \A c \in Channels :
        (N(c) >= 1) =>
            /\ xy[c] = final(c).post
            /\ (N(c) >= 2 /\ final(c).rec # call(c, N(c) - 1).rec) =>
                  LET e == final(c)
                      h == Inserted(call(c, N(c) - 1).post, e.x0)
                  IN  /\ e.pre = call(c, N(c) - 1).post
                      /\ (~e.hold /\ Ordered(e.rec)) =>
                            e.y0 = Limit(Weighted(e.rec, h),
                                         e.rec.y_min, e.rec.y_max)

\* C5 witness: a hold = false call under record B right after two calls
\* under record A left a nonzero history, B's result differing from the one
\* A would have given
C5_Witness ==
    /\ N(1) = 3
    /\ call(1, 1).rec = call(1, 2).rec
    /\ call(1, 3).rec # call(1, 2).rec
    /\ call(1, 3).rec.ba # call(1, 2).rec.ba
    /\ Ordered(call(1, 2).rec) /\ Ordered(call(1, 3).rec)
    /\ call(1, 2).post[6] # 0 /\ call(1, 2).post[7] # 0
    /\ ~call(1, 3).hold
    /\ call(1, 3).y0 # Limit(Weighted(call(1, 2).rec,
                                      Inserted(call(1, 2).post, call(1, 3).x0)),
                             call(1, 2).rec.y_min, call(1, 2).rec.y_max)

\* C6 as stated (Inertness of zero taps): under one record with all 13 taps
\* zero and y_min <= y_max, from an all-zero buffer, every call returns
\* clamp(y_offset, y_min, y_max), whatever the inputs and the hold flags.
C6_InertAnyHold ==
    \A c \in Channels :
        (/\ N(c) >= 1
         /\ ZeroTaps(rec) /\ Ordered(rec)
         /\ \A i \in 1 .. N(c) : call(c, i).rec = rec) =>
            final(c).y0 = Limit(rec.y_offset, rec.y_min, rec.y_max)

\* C6 as amended: under such a record every hold = false call, and every
\* hold = true call made after a hold = false call, returns
\* clamp(y_offset, y_min, y_max); a hold = true call made before any
\* hold = false call returns clamp(0, y_min, y_max).
C6_InertAfterCompute ==
    \A c \in Channels :
        (/\ N(c) >= 1
         /\ ZeroTaps(rec) /\ Ordered(rec)
         /\ \A i \in 1 .. N(c) : call(c, i).rec = rec) =>
            final(c).y0 =
                IF \E i \in 1 .. N(c) : ~call(c, i).hold
                THEN Limit(rec.y_offset, rec.y_min, rec.y_max)
                ELSE Limit(0, rec.y_min, rec.y_max)

\* C6 witness: a zero-tap record with a nonzero offset; a hold on the fresh
\* buffer, then a computed call, a hold and a computed call with other input
C6_Witness ==
    /\ N(1) = 4
    /\ ZeroTaps(rec) /\ Ordered(rec) /\ rec.y_offset # 0
    /\ \A i \in 1 .. 4 : call(1, i).rec = rec
    /\ call(1, 1).hold /\ ~call(1, 2).hold /\ call(1, 3).hold /\ ~call(1, 4).hold
    /\ call(1, 2).x0 # call(1, 4).x0
    /\ call(1, 1).y0 = Limit(0, rec.y_min, rec.y_max)
    /\ \A i \in 2 .. 4 : call(1, i).y0 = Limit(rec.y_offset, rec.y_min, rec.y_max)

\* C7 (History layout): from an all-zero buffer, after n >= 1 calls (any
\* hold flags, any records) the buffer has 13 slots, slots 0..5 hold the
\* inputs of the last 6 calls and slots 6..12 the values returned by the last
\* 7 calls, most recent first, 0 where fewer calls were made; a call drops
\* the oldest stored input (slot 5) and the oldest stored output (slot 12)
\* and nothing else.
C7_HistoryLayout ==
    \A c \in Channels :
        (N(c) >= 1) =>
            /\ DOMAIN xy[c] = 0 .. 12
            /\ \A k \in 0 .. 5 : xy[c][k] = X(c, N(c) - k)
            /\ \A k \in 0 .. 6 : xy[c][6 + k] = Y(c, N(c) - k)
            /\ \A k \in 1 .. 5 : xy[c][k] = final(c).pre[k - 1]
            /\ \A k \in 7 .. 12 : xy[c][k] = final(c).pre[k - 1]

\* C7 witness: an eighth or later call, after held calls and a change
\* of record, that drops a nonzero input and a nonzero output
C7_Witness ==
    /\ N(1) >= 8
    /\ \E i \in 1 .. N(1) : call(1, i).hold
    /\ \E i \in 2 .. N(1) : call(1, i).rec # call(1, i - 1).rec
    /\ final(1).pre[5] # 0 /\ final(1).pre[12] # 0
    /\ final(1).pre[12] = Y(1, N(1) - 7)
    /\ final(1).pre[5] = X(1, N(1) - 6)
    /\ \A k \in 6 .. 11 : xy[1][k] # xy[1][k + 1]

\* the buffer and the value that the first n calls logged for channel c give
\* when made alone, on a buffer of their own, under record r
RECURSIVE Alone(_, _, _)
Alone(r, c, n) ==
    IF n = 0 THEN [xy |-> Zero13, y0 |-> 0]
    ELSE update(r, Alone(r, c, n - 1).xy, log[c][n].x0, log[c][n].hold)

\* C8 (Only the passed state is modified): an update call leaves the record
\* and every other buffer unchanged, so with one record driving two buffers
\* the values returned for a buffer, and the buffer itself, are those its
\* own calls give when made alone, for every interleaving.
C8_OnlyPassedState ==
    \A c \in Channels :
        /\ \A i \in 1 .. N(c) :
              /\ call(c, i).rec = rec
              /\ call(c, i).y0 = Alone(rec, c, i).y0
        /\ xy[c] = Alone(rec, c, N(c)).xy
        /\ (N(c) >= 1) => xy[c] = final(c).post

\* C8 witness: calls made alternately on the two channels, with different
\* inputs, leaving two different nonzero buffers
C8_Witness ==
    /\ N(1) = 2 /\ N(2) = 2
    /\ call(1, 1).seq = 1 /\ call(2, 1).seq = 2
    /\ call(1, 2).seq = 3 /\ call(2, 2).seq = 4
    /\ call(1, 1).x0 # call(2, 1).x0
    /\ call(1, 2).y0 # call(2, 2).y0
    /\ xy[1][7] # 0 /\ xy[2][7] # 0
    /\ xy[1] # xy[2]

\* what a hold = true call does to the buffer: slot 0 takes the new input,
\* slots 1..5 the former slots 0..4, slots 7..12 the former slots 6..11, and
\* slot 6 the returned value; and the inputs supplied during hold are the
\* x[n-i] of the sum of a later hold = false call
HoldAdvances(c) ==
    /\ (N(c) >= 1 /\ final(c).hold) =>
          /\ xy[c][0] = final(c).x0
          /\ \A k \in 1 .. 5 : xy[c][k] = final(c).pre[k - 1]
          /\ \A k \in 7 .. 12 : xy[c][k] = final(c).pre[k - 1]
          /\ xy[c][6] = final(c).y0
    /\ (N(c) >= 2 /\ ~final(c).hold /\ Ordered(final(c).rec)) =>
          final(c).y0 = Limit(Difference(final(c).rec, c, N(c)),
                              final(c).rec.y_min, final(c).rec.y_max)

\* C9 as stated (Time advance under hold): a hold = true call changes the
\* buffer as a hold = false call does except for the value written to slot
\* 6, and after k consecutive hold calls slots 6..min(6+k,12) all hold the
\* held value.
C9_HeldRunAlways ==
    \A c \in Channels :
        /\ HoldAdvances(c)
        /\ LET k == HoldRun(c, N(c))
           IN  (k >= 1 /\ \A i \in 1 .. N(c) : Ordered(call(c, i).rec)) =>
                  \A j \in 6 .. (IF 6 + k < 12 THEN 6 + k ELSE 12) :
                      xy[c][j] = final(c).y0

\* C9 as amended: the same, the last part for k consecutive hold calls such
\* that the value v in slot 6 before the first of them (the value the
\* preceding call returned, 0 on a fresh buffer) lies within [y_min, y_max]
\* of the record passed to each of them, as it does under an unchanged
\* record with y_min <= y_max after a first call: then every one of them
\* returns v and slots 6..min(6+k,12) all hold v.
C9_HeldRunWithinBounds ==
    \A c \in Channels :
        /\ HoldAdvances(c)
        /\ LET k == HoldRun(c, N(c))
               v == call(c, N(c) - k + 1).pre[6]
           IN  (/\ k >= 1
                /\ \A i \in (N(c) - k + 1) .. N(c) :
                      /\ call(c, i).rec.y_min <= v
                      /\ v <= call(c, i).rec.y_max) =>
                  /\ final(c).y0 = v
                  /\ v = Y(c, N(c) - k)
                  /\ \A j \in 6 .. (IF 6 + k < 12 THEN 6 + k ELSE 12) :
                        xy[c][j] = v

\* C9 witness: seven consecutive hold calls after a call that returned a
\* nonzero value: slots 6..12 all hold it, slots 0..5 the inputs supplied
\* during hold
C9_Witness ==
    /\ N(1) = 8
    /\ HoldRun(1, 8) = 7
    /\ call(1, 1).y0 # 0
    /\ \A j \in 6 .. 12 : xy[1][j] = call(1, 1).y0
    /\ \A k \in 0 .. 5 : xy[1][k] = call(1, 8 - k).x0 /\ xy[1][k] # 0

\* C10 (Held value is clamped): a hold = true call returns
\* clamp(v, y_min, y_max) with the bounds (ordered) of the record passed to
\* that call, v being slot 6 before the call (0 on a fresh buffer); ba and
\* y_offset play no part.
C10_HoldClamps ==
    \A c \in Channels :
        (N(c) >= 1 /\ final(c).hold /\ Ordered(final(c).rec)) =>
            /\ final(c).y0 =
                  Limit(final(c).pre[6], final(c).rec.y_min, final(c).rec.y_max)
            /\ (N(c) = 1) =>
                  final(c).y0 = Limit(0, final(c).rec.y_min, final(c).rec.y_max)

\* C10 witness: a hold on the fresh buffer under a record with a nonzero
\* offset, then a hold under a record whose bounds exclude the value held
C10_Witness ==
    /\ N(1) = 2
    /\ call(1, 1).hold /\ call(1, 2).hold
    /\ Ordered(call(1, 1).rec) /\ Ordered(call(1, 2).rec)
    /\ call(1, 1).rec.y_offset # 0
    /\ call(1, 1).y0 = 0
    /\ call(1, 1).y0 # Limit(call(1, 1).rec.y_offset,
                             call(1, 1).rec.y_min, call(1, 1).rec.y_max)
    /\ call(1, 2).rec # call(1, 1).rec
    /\ call(1, 2).y0 # call(1, 1).y0
    /\ call(1, 2).y0 = call(1, 2).rec.y_min

====
